---- MODULE Spec2Model ----
(***************************************************************************)
(* Model of app.py: the Streamlit portfolio dashboard.                     *)
(*                                                                         *)
(* One script run is one step.  The session state (df, data_loaded), the   *)
(* st.cache_data memo of load_data, the sidebar widgets' values and what   *)
(* the run put on the page are the state.  A CSV cell is a sequence of     *)
(* one-character strings; a blank cell (pandas NaN) is the empty sequence. *)
(* A numeric cell after pd.to_numeric is <<n>>, or <<>> for NaN.  Numbers  *)
(* are integers (the float arithmetic of pandas is read as exact).         *)
(***************************************************************************)
EXTENDS Integers, Sequences, FiniteSets, TLC

VARIABLES
    sheet,             \* the CSV behind the URL as pd.read_csv last saw it: [columns, rows]
    sheet_url,         \* value of the sidebar text input
    cache,             \* st.cache_data: the memoised results of load_data, one per url
    df,                \* st.session_state.df
    data_loaded,       \* st.session_state.data_loaded
    load_error,        \* what load_data / the button handler reported in this run
    run,               \* this run: was the button clicked, did pd.read_csv return
    account_options,   \* options of the "Filter by Account" widget as last drawn
    type_options,      \* options of the "Filter by Type" widget as last drawn
    selected_account,  \* value of the "Filter by Account" widget
    selected_type,     \* value of the "Filter by Type" widget
    dash               \* what the main area shows after this run

vars == <<sheet, sheet_url, cache, df, data_loaded, load_error, run,
          account_options, type_options, selected_account, selected_type, dash>>

\* Longest sheet body (number of data rows) the model draws.
MaxRows == 2

Range(s) == {s[i] : i \in DOMAIN s}

NaN == <<>>

-----------------------------------------------------------------------------
(* Column names, load_data lines 39-41, 50, 66.                            *)

numeric_cols ==
    <<"Shares", "Cost of Shares", "Current Price of Shares",
      "Capital Input", "Current Value", "% change", "P/L">>

all_expected_cols ==
    <<"Account", "Ticker", "Tag", "Name", "Type", "Action">> \o numeric_cols

cols_to_clean ==
    <<"Cost of Shares", "Current Price of Shares", "Capital Input",
      "Current Value", "P/L", "% change">>

cols_to_zero_for_cash ==
    <<"Shares", "Cost of Shares", "Current Price of Shares", "% change", "P/L">>

CASH == <<"C", "A", "S", "H">>

Unknown == <<"U", "n", "k", "n", "o", "w", "n">>

default_url == "https://docs.google.com/spreadsheets/d/e/pub?output=csv"

-----------------------------------------------------------------------------
(* Text and number conversions.                                            *)

\* str.replace(r'[$,%]', '', regex=True): every '$', ',' and '%' is removed.
StripSymbols(s) == SelectSeq(s, LAMBDA c : c \notin {"$", ",", "%"})

DigitVal ==
    "0" :> 0 @@ "1" :> 1 @@ "2" :> 2 @@ "3" :> 3 @@ "4" :> 4 @@
    "5" :> 5 @@ "6" :> 6 @@ "7" :> 7 @@ "8" :> 8 @@ "9" :> 9

RECURSIVE DecValue(_)
DecValue(s) ==
    IF s = <<>> THEN 0
    ELSE DecValue(SubSeq(s, 1, Len(s) - 1)) * 10 + DigitVal[s[Len(s)]]

\* The numerals pd.to_numeric reads, over the model's characters: an optional
\* sign and one or more digits.
IsNumeral(s) ==
    /\ Len(s) > 0
    /\ LET body == IF s[1] = "-" THEN Tail(s) ELSE s
       IN  /\ Len(body) > 0
           /\ \A i \in DOMAIN body : body[i] \in DOMAIN DigitVal

\* pd.to_numeric(..., errors='coerce') on one cell.
to_numeric(s) ==
    IF IsNumeral(s)
    THEN IF s[1] = "-" THEN <<0 - DecValue(Tail(s))>> ELSE <<DecValue(s)>>
    ELSE NaN

UpperChar(c) ==
    CASE c = "a" -> "A" [] c = "c" -> "C" [] c = "h" -> "H" [] c = "s" -> "S"
      [] c = "k" -> "K" [] c = "n" -> "N" [] c = "o" -> "O" [] c = "w" -> "W"
      [] OTHER -> c

\* str.upper()
Upper(s) == [i \in DOMAIN s |-> UpperChar(s[i])]

-----------------------------------------------------------------------------
(* load_data, lines 22-83.                                                 *)

NoError == [kind |-> "None", cols |-> <<>>]

\* missing_cols looking for the numeric columns only.
missing_numeric_cols(columns) == SelectSeq(numeric_cols, LAMBDA c : c \notin columns)

\* lines 44: the expected columns the sheet lacks, in the order of the list.
missing_cols(columns) == SelectSeq(all_expected_cols, LAMBDA c : c \notin columns)

\* lines 49-58 on one row: strip the symbols of the currency and percentage
\* columns (Shares is not among them), then coerce the seven numeric columns.
CleanRow(r) ==
    [c \in DOMAIN r |->
        IF c \in Range(numeric_cols)
        THEN to_numeric(IF c \in Range(cols_to_clean) THEN StripSymbols(r[c]) ELSE r[c])
        ELSE r[c]]

\* cash_mask comparing the Type as written, without upper-casing it.
cash_mask_exact(r) == r["Type"] = CASH

\* line 65 on one row: df['Type'].str.upper().fillna('') == 'CASH'
cash_mask(r) == Upper(r["Type"]) = CASH

\* FillCash that leaves P/L out of the columns it zero-fills.
FillCashNoPL(r) ==
    IF cash_mask(r)
    THEN [c \in DOMAIN r |->
            IF c \in Range(cols_to_zero_for_cash) \ {"P/L"} /\ r[c] = NaN
            THEN <<0>> ELSE r[c]]
    ELSE r

\* lines 66-69 on one row.
FillCash(r) ==
    IF cash_mask(r)
    THEN [c \in DOMAIN r |->
            IF c \in Range(cols_to_zero_for_cash) /\ r[c] = NaN THEN <<0>> ELSE r[c]]
    ELSE r

\* lines 72-73 on one row (fillna(..., inplace=True) reaching the frame, as
\* it does in the pandas versions before copy-on-write).
FillCategorical(r) ==
    [r EXCEPT !["Account"] = IF @ = NaN THEN Unknown ELSE @,
              !["Type"]    = IF @ = NaN THEN Unknown ELSE @]

\* line 77: the rows dropna(subset=['Current Value', 'Capital Input']) keeps.
Essential(r) == r["Current Value"] /= NaN /\ r["Capital Input"] /= NaN

dropna(rows) == SelectSeq(rows, Essential)

\* line 65: the .str accessor exists only on a column that holds strings.
\* read_csv gives a column whose cells are all blank the dtype float64, and
\* .str on it raises AttributeError.
StrAccessorOk(rows) == \E i \in DOMAIN rows : rows[i]["Type"] /= NaN

\* line 31: the parsed frame.  Each row carries its label in the frame's
\* RangeIndex (0, 1, ...) under "index"; dropna keeps the labels.
read_csv(csv) == [i \in DOMAIN csv.rows |-> csv.rows[i] @@ ("index" :> <<i - 1>>)]

\* lines 49-79: the cleaning of a frame that has rows and all its columns.
CleanTable(rows) ==
    dropna([i \in DOMAIN rows |-> FillCategorical(FillCash(CleanRow(rows[i])))])

\* load_data(url) while the URL serves csv; fetch_ok = FALSE is pd.read_csv
\* raising (network, parse).
\* Returns the table and what st.error reported.
load_data(csv, fetch_ok) ==
    IF ~fetch_ok
    THEN [df |-> <<>>, error |-> [kind |-> "Exception", cols |-> <<>>]]
    ELSE IF csv.rows = <<>>
    THEN [df |-> <<>>, error |-> [kind |-> "EmptySource", cols |-> <<>>]]
    ELSE IF missing_cols(csv.columns) /= <<>>
    THEN [df |-> <<>>,
          error |-> [kind |-> "MissingColumns", cols |-> missing_cols(csv.columns)]]
    ELSE IF ~StrAccessorOk(csv.rows)
    THEN [df |-> <<>>, error |-> [kind |-> "Exception", cols |-> <<>>]]
    ELSE [df |-> CleanTable(read_csv(csv)), error |-> NoError]

-----------------------------------------------------------------------------
(* The dashboard, lines 109-199.                                           *)

\* Series.unique(): the values in order of first appearance.
RECURSIVE Unique(_)
Unique(s) ==
    IF s = <<>> THEN <<>>
    ELSE LET front == Unique(SubSeq(s, 1, Len(s) - 1))
             last  == s[Len(s)]
         IN  IF last \in Range(front) THEN front ELSE Append(front, last)

Column(rows, c) == [i \in DOMAIN rows |-> rows[i][c]]

\* Series.sum(): NaN cells are skipped, the sum of nothing is 0.
RECURSIVE SumCol(_, _)
SumCol(rows, c) ==
    IF rows = <<>> THEN 0
    ELSE LET cell == rows[Len(rows)][c]
         IN  SumCol(SubSeq(rows, 1, Len(rows) - 1), c)
               + (IF cell = NaN THEN 0 ELSE cell[1])

RECURSIVE GCD(_, _)
GCD(a, b) == IF b = 0 THEN a ELSE GCD(b, a % b)

Abs(n) == IF n < 0 THEN 0 - n ELSE n

\* The quotient n / d (d > 0) as a fraction in lowest terms.
Ratio(n, d) == LET g == GCD(Abs(n), d) IN <<n \div g, d \div g>>

Zero == <<0, 1>>

\* lines 130-133
filter_rows(rows, accounts, types) ==
    SelectSeq(rows, LAMBDA r : r["Account"] \in accounts /\ r["Type"] \in types)

\* non_cash comparing the Type as written, without upper-casing it.
non_cash_exact(rows) == SelectSeq(rows, LAMBDA r : r["Type"] /= CASH)

\* lines 147, 178, 186: filtered_df[filtered_df['Type'].str.upper() != 'CASH']
non_cash(rows) == SelectSeq(rows, LAMBDA r : Upper(r["Type"]) /= CASH)

\* total_value summed over the invested rows only.
total_value_invested(filtered_df) == SumCol(non_cash(filtered_df), "Current Value")

\* line 142
total_value(filtered_df) == SumCol(filtered_df, "Current Value")

\* line 143
total_pl(filtered_df) == SumCol(filtered_df, "P/L")

\* line 144
total_capital_input(filtered_df) == SumCol(filtered_df, "Capital Input")

\* invested_capital that forgets to leave the cash rows out.
invested_capital_all(filtered_df) == SumCol(filtered_df, "Capital Input")

\* line 147
invested_capital(filtered_df) == SumCol(non_cash(filtered_df), "Capital Input")

\* lines 148-151
overall_pct_change(pl, invested) ==
    IF invested > 0 THEN Ratio(pl * 100, invested) ELSE Zero

\* groupby(key)[c].sum(): one entry per key present (a NaN key forms no group).
group_sum(rows, key, c) ==
    {<<k, SumCol(SelectSeq(rows, LAMBDA r : r[key] = k), c)>> :
        k \in {rows[i][key] : i \in DOMAIN rows} \ {NaN}}

\* lines 109-199: what one run shows for the session state and widget values.
Render(table, loaded, accounts, types) ==
    IF ~loaded THEN [shown |-> "info"]
    ELSE LET filtered_df == filter_rows(table, accounts, types)
         IN  IF filtered_df = <<>> THEN [shown |-> "warning"]
             ELSE [shown               |-> "dashboard",
                   filtered_df         |-> filtered_df,
                   total_value         |-> total_value(filtered_df),
                   total_pl            |-> total_pl(filtered_df),
                   total_capital_input |-> total_capital_input(filtered_df),
                   invested_capital    |-> invested_capital(filtered_df),
                   overall_pct_change  |->
                       overall_pct_change(total_pl(filtered_df),
                                          invested_capital(filtered_df)),
                   value_by_ticker     |-> group_sum(filtered_df, "Ticker", "Current Value"),
                   type_distribution   |->
                       group_sum(non_cash(filtered_df), "Type", "Current Value"),
                   treemap_df          |-> non_cash(filtered_df)]

-----------------------------------------------------------------------------
(* The sheets the model draws.                                             *)

SeqsUpTo(S, n) == UNION {[1..k -> S] : k \in 0..n}

Row(account, ticker, type, shares, cost, price, capital, value, pct, pl) ==
    [c \in Range(all_expected_cols) |->
        CASE c = "Account"                 -> account
          [] c = "Ticker"                  -> ticker
          [] c = "Tag"                     -> NaN
          [] c = "Name"                    -> ticker
          [] c = "Type"                    -> type
          [] c = "Action"                  -> NaN
          [] c = "Shares"                  -> shares
          [] c = "Cost of Shares"          -> cost
          [] c = "Current Price of Shares" -> price
          [] c = "Capital Input"           -> capital
          [] c = "Current Value"           -> value
          [] c = "% change"                -> pct
          [] c = "P/L"                     -> pl]

AllColumns == Range(all_expected_cols)

\* A cash position with a negative balance and blank holding fields.
RowCash ==
    Row(<<"A">>, <<"U","S","D">>, <<"C","a","s","h">>,
        NaN, NaN, NaN, <<"$","2">>, <<"-","$","1">>, NaN, NaN)

\* A holding with every field filled in.
RowEtf ==
    Row(<<"A">>, <<"V","T","I">>, <<"E","T","F">>,
        <<"2">>, <<"$","1">>, <<"$","1">>, <<"$","2">>, <<"$","3">>, <<"5","0","%">>, <<"$","2">>)

\* A holding with no account, no type, a negative capital input and a loss.
RowBare ==
    Row(NaN, <<"X">>, NaN,
        <<"1">>, NaN, NaN, <<"-","2">>, <<"1">>, NaN, <<"-","$","1">>)

\* A cash row whose Current Value does not parse.
RowBad ==
    Row(<<"B">>, <<"U","S","D">>, CASH,
        NaN, NaN, NaN, <<"1">>, <<"x">>, NaN, NaN)

SmallRows == {RowCash, RowEtf, RowBare, RowBad}

\* Column sets that lack required columns.
ShortColumnSets == {AllColumns \ {"P/L"}, AllColumns \ {"Type", "% change"}}

\* Every body of up to MaxRows rows under the full header, and the bodies of
\* at most one row under a header that lacks columns.
Sheets ==
    {[columns |-> AllColumns, rows |-> b] : b \in SeqsUpTo(SmallRows, MaxRows)}
    \cup {[columns |-> cs, rows |-> b] : cs \in ShortColumnSets, b \in SeqsUpTo(SmallRows, 1)}

RichTypes ==
    {NaN, CASH, <<"C","a","s","h">>, <<"c","a","s","h">>, <<"E","T","F">>}

RawValue   == {NaN, <<"$","2">>, <<"-","1">>, <<"x">>}
RawCapital == {NaN, <<"-","$","3">>, <<"1",",","0">>, <<"$">>}
RawPL      == {NaN, <<"5","%">>, <<"x">>}
RawShares  == {NaN, <<"2">>, <<"1",",","0">>}
RawCost    == {NaN, <<"$","2">>}
RawPrice   == {<<"x">>, <<"2">>}
RawPct     == {NaN, <<"-","5","%">>}

RichRows ==
    {Row(<<"A">>, <<"T">>, t, sh, co, pr, ci, cv, pc, pl) :
        t \in RichTypes, sh \in RawShares, co \in RawCost, pr \in RawPrice,
        ci \in RawCapital, cv \in RawValue, pc \in RawPct, pl \in RawPL}

\* One row out of RichRows, followed by rows that do or do not give the
\* Type column a string.
RichSheets ==
    {[columns |-> AllColumns, rows |-> <<r>> \o b] :
        r \in RichRows, b \in SeqsUpTo({RowEtf, RowBare}, MaxRows - 1)}

-----------------------------------------------------------------------------
(* The script run, lines 12-17 and 86-199.                                 *)

NoRun == [button |-> FALSE, fetched |-> FALSE]

\* session_df that keeps the prior table when the load returns nothing.
session_df_keep(result, prior) == IF result.df = <<>> THEN prior ELSE result.df

\* loaded_flag set whatever the table holds.
loaded_flag_always(table) == TRUE

\* table_after_filter storing the filtered view as the session's table.
table_after_filter_stored(table, accounts, types) == filter_rows(table, accounts, types)

\* line 100: what the handler stores in st.session_state.df
session_df(result, prior) == result.df

\* lines 101-105: the flag the handler sets from the stored table
loaded_flag(table) == table /= <<>>

\* lines 110, 130: the filter reads st.session_state.df and builds a new frame
table_after_filter(table, accounts, types) == table

\* lines 115-127: a multiselect keeps its value while it is drawn again
\* with the same options and default; otherwise it shows its default, all options.
widget_value(options, prior_options, prior_value) ==
    IF options /= <<>> /\ options = prior_options THEN prior_value ELSE Range(options)

\* lines 109-199 after the session state is settled: the widgets, then the page.
Draw ==
    /\ account_options' = IF data_loaded' THEN Unique(Column(df', "Account")) ELSE <<>>
    /\ type_options' = IF data_loaded' THEN Unique(Column(df', "Type")) ELSE <<>>

Init ==
    /\ sheet = [columns |-> AllColumns, rows |-> <<>>]
    /\ sheet_url = default_url
    /\ cache = <<>>
    /\ df = <<>>
    /\ data_loaded = FALSE
    /\ load_error = NoError
    /\ run = NoRun
    /\ account_options = <<>>
    /\ type_options = <<>>
    /\ selected_account = {}
    /\ selected_type = {}
    /\ dash = [shown |-> "info"]

\* lines 92-106, then 109-199: "Load Portfolio Data" is clicked while the
\* URL serves csv.
ClickLoad(csv, fetch_ok) ==
    /\ sheet' = IF sheet_url /= "" /\ fetch_ok THEN csv ELSE sheet
    /\ UNCHANGED sheet_url
    /\ IF sheet_url = ""
       THEN /\ load_error' = [kind |-> "UrlMissing", cols |-> <<>>]
            /\ run' = [button |-> TRUE, fetched |-> FALSE]
            /\ data_loaded' = FALSE
            /\ UNCHANGED <<df, cache>>
       ELSE LET result == load_data(csv, fetch_ok)
            IN  /\ cache' = <<[url |-> sheet_url, value |-> result.df]>>
                /\ df' = session_df(result, df)
                /\ data_loaded' = loaded_flag(df')
                /\ load_error' = result.error
                /\ run' = [button |-> TRUE, fetched |-> fetch_ok]
    /\ Draw
    /\ selected_account' = widget_value(account_options', account_options, selected_account)
    /\ selected_type' = widget_value(type_options', type_options, selected_type)
    /\ dash' = Render(df', data_loaded', selected_account', selected_type')

\* lines 116-127, then 129-199: the user changes the two multiselects.
ChangeFilters(accounts, types) ==
    /\ data_loaded
    /\ <<accounts, types>> /= <<selected_account, selected_type>>
    /\ df' = table_after_filter(df, accounts, types)
    /\ UNCHANGED <<sheet, sheet_url, cache, data_loaded>>
    /\ load_error' = NoError
    /\ run' = NoRun
    /\ Draw
    /\ selected_account' = accounts
    /\ selected_type' = types
    /\ dash' = Render(df', data_loaded', accounts, types)

\* lines 87-90, then 109-199: the user edits the URL box.
EditUrl(url) ==
    /\ url /= sheet_url
    /\ sheet_url' = url
    /\ UNCHANGED <<sheet, cache, df, data_loaded>>
    /\ load_error' = NoError
    /\ run' = NoRun
    /\ Draw
    /\ selected_account' = widget_value(account_options', account_options, selected_account)
    /\ selected_type' = widget_value(type_options', type_options, selected_type)
    /\ dash' = Render(df', data_loaded', selected_account', selected_type')

Next ==
    \/ \E csv \in Sheets : ClickLoad(csv, TRUE)
    \/ ClickLoad(sheet, FALSE)
    \/ \E accounts \in SUBSET Range(account_options), types \in SUBSET Range(type_options) :
          ChangeFilters(accounts, types)
    \/ \E url \in {"", default_url} : EditUrl(url)

Spec == Init /\ [][Next]_vars

\* The cleaner on one sheet: the session starts with the URL serving any of
\* RichSheets, and the button is clicked.
InitRows ==
    /\ sheet \in RichSheets
    /\ sheet_url = default_url
    /\ cache = <<>>
    /\ df = <<>>
    /\ data_loaded = FALSE
    /\ load_error = NoError
    /\ run = NoRun
    /\ account_options = <<>>
    /\ type_options = <<>>
    /\ selected_account = {}
    /\ selected_type = {}
    /\ dash = [shown |-> "info"]

NextRows == ClickLoad(sheet, TRUE)

SpecRows == InitRows /\ [][NextRows]_vars

-----------------------------------------------------------------------------
(* What the properties below read off the sheet, stated apart from the     *)
(* operators the cleaner uses.                                             *)

\* The Type equals "CASH" case-insensitively.
IsCashType(t) ==
    /\ Len(t) = 4
    /\ t[1] \in {"C", "c"} /\ t[2] \in {"A", "a"}
    /\ t[3] \in {"S", "s"} /\ t[4] \in {"H", "h"}

\* The cell parses to a number once '$', ',' and '%' are stripped.
Parses(raw) == to_numeric(StripSymbols(raw)) /= NaN

\* The number a cell of column c holds: Shares is read as written, the
\* currency and percentage columns after stripping.
Parsed(c, raw) == IF c = "Shares" THEN to_numeric(raw) ELSE to_numeric(StripSymbols(raw))

\* This run called load_data and pd.read_csv returned the sheet.
Fetched == run.button /\ run.fetched

\* Row i of the sheet is in the session's table.
Retained(i) == \E j \in DOMAIN df : df[j]["index"] = <<i - 1>>

\* The sum of column c over the rows with indices in S that hold a number.
RECURSIVE SumOver(_, _, _)
SumOver(rows, S, c) ==
    IF S = {} THEN 0
    ELSE LET j == CHOOSE k \in S : TRUE
         IN  (IF rows[j][c] = NaN THEN 0 ELSE rows[j][c][1]) + SumOver(rows, S \ {j}, c)

AllCash(rows) == \A j \in DOMAIN rows : IsCashType(rows[j]["Type"])

LoadFailures == {"Exception", "EmptySource", "MissingColumns"}

DefaultFilters ==
    /\ selected_account = Range(account_options)
    /\ selected_type = Range(type_options)

-----------------------------------------------------------------------------
(* C1 *)

\* C1: after load_data has read a sheet that has rows and all 13 columns, a
\* row of the sheet is in the returned table if and only if its Current Value
\* and its Capital Input both parse once '$', ',' and '%' are stripped,
\* whatever its Type; every row of the table has both non-null.
C1_RetainedIffBothParse ==
    (Fetched /\ sheet.rows /= <<>> /\ sheet.columns = AllColumns) =>
        /\ \A i \in DOMAIN sheet.rows :
              Retained(i) <=> (/\ Parses(sheet.rows[i]["Current Value"])
                               /\ Parses(sheet.rows[i]["Capital Input"]))
        /\ \A j \in DOMAIN df :
              df[j]["Current Value"] /= NaN /\ df[j]["Capital Input"] /= NaN

\* The same statement for the sheets whose Type column holds at least one
\* non-blank cell: there it holds.
C1_HoldsWhenTypeColumnHasText ==
    (\E i \in DOMAIN sheet.rows : sheet.rows[i]["Type"] /= NaN) => C1_RetainedIffBothParse

-----------------------------------------------------------------------------
(* C2 *)

\* C2: a row of the sheet whose Type is "CASH" in any letter case and whose
\* Current Value and Capital Input parse is retained, and each of Shares,
\* Cost of Shares, Current Price of Shares, % change and P/L is 0 where the
\* cell was blank or unparseable and the parsed number otherwise; none is null.
C2_CashRowsZeroFilled ==
    Fetched =>
        \A i \in DOMAIN sheet.rows :
            LET r == sheet.rows[i]
            IN  (/\ IsCashType(r["Type"])
                 /\ Parses(r["Current Value"])
                 /\ Parses(r["Capital Input"])) =>
                    \E j \in DOMAIN df :
                        /\ df[j]["index"] = <<i - 1>>
                        /\ \A c \in Range(cols_to_zero_for_cash) :
                              /\ df[j][c] /= NaN
                              /\ df[j][c] = IF Parsed(c, r[c]) = NaN THEN <<0>>
                                            ELSE Parsed(c, r[c])

\* A retained row typed "Cash" whose blank Shares became 0 and whose % change
\* kept its parsed value.
C2_Witness ==
    /\ Fetched
    /\ \E j \in DOMAIN df :
          LET r == sheet.rows[df[j]["index"][1] + 1]
          IN  /\ r["Type"] = <<"C", "a", "s", "h">>
              /\ r["Shares"] = NaN
              /\ df[j]["Shares"] = <<0>>
              /\ df[j]["% change"] = <<0 - 5>>

-----------------------------------------------------------------------------
(* C3 *)

\* C3 as stated: a click on Load that fails (exception, empty source, missing
\* columns) leaves the session's table as it was and clears the flag.
C3_FailureKeepsPriorTable ==
    [][(run'.button /\ load_error'.kind \in LoadFailures) =>
           (df' = df /\ ~data_loaded')]_vars

\* C3 amended: a click on Load that fails with a URL in the box stores the
\* empty table in the session and clears the flag; a click with an empty URL
\* box leaves the table as it was and clears the flag.
C3_FailureClearsTable ==
    [][run'.button =>
          /\ load_error'.kind \in LoadFailures => (df' = <<>> /\ ~data_loaded')
          /\ load_error'.kind = "UrlMissing" => (df' = df /\ ~data_loaded')]_vars

\* A failed load has run: the table is empty, the flag is down, nothing is drawn.
C3_Witness ==
    /\ run.button
    /\ load_error.kind = "EmptySource"
    /\ df = <<>>
    /\ ~data_loaded
    /\ dash.shown = "info"

-----------------------------------------------------------------------------
(* C4 *)

\* C4: when load_data has read a sheet that has rows, it reports
\* MissingColumns exactly when a required column is absent; the report names
\* the absent columns, each once, and the table returned and stored is empty.
C4_MissingColumnsNamed ==
    (Fetched /\ sheet.rows /= <<>>) =>
        IF AllColumns \ sheet.columns /= {}
        THEN /\ load_error.kind = "MissingColumns"
             /\ Range(load_error.cols) = AllColumns \ sheet.columns
             /\ Len(load_error.cols) = Cardinality(AllColumns \ sheet.columns)
             /\ df = <<>>
             /\ cache[1].value = <<>>
        ELSE load_error.kind /= "MissingColumns"

\* A sheet without its P/L column was loaded and the report names P/L.
C4_Witness ==
    /\ Fetched
    /\ sheet.rows /= <<>>
    /\ "P/L" \notin sheet.columns
    /\ load_error = [kind |-> "MissingColumns", cols |-> <<"P/L">>]

-----------------------------------------------------------------------------
(* C5 *)

\* C5: on every drawn dashboard, with the invested capital the sum of Capital
\* Input over the rows of the view whose Type is not "CASH" in any letter case,
\* overall_pct_change is total_pl / invested * 100 when invested > 0 and
\* exactly 0 when invested <= 0.
C5_OverallPctChange ==
    dash.shown = "dashboard" =>
        LET view     == dash.filtered_df
            invested == SumOver(view, {j \in DOMAIN view : ~IsCashType(view[j]["Type"])},
                                "Capital Input")
            pct      == dash.overall_pct_change
        IN  /\ dash.invested_capital = invested
            /\ invested > 0 => (pct[2] > 0 /\ pct[1] * invested = dash.total_pl * 100 * pct[2])
            /\ invested =< 0 => pct = Zero

\* A dashboard whose invested rows sum to a capital of zero while the P/L is not.
C5_Witness ==
    /\ dash.shown = "dashboard"
    /\ dash.treemap_df /= <<>>
    /\ dash.invested_capital = 0
    /\ dash.total_pl /= 0
    /\ dash.overall_pct_change = Zero

\* A dashboard with a negative invested capital and a P/L that is not zero.
C5_WitnessNegative ==
    /\ dash.shown = "dashboard"
    /\ dash.invested_capital < 0
    /\ dash.total_pl /= 0
    /\ dash.overall_pct_change = Zero

\* A dashboard with a positive invested capital: 2 of P/L on 2 is 100 percent.
C5_WitnessPositive ==
    /\ dash.shown = "dashboard"
    /\ dash.invested_capital = 2
    /\ dash.total_pl = 2
    /\ dash.overall_pct_change = <<100, 1>>

-----------------------------------------------------------------------------
(* C6 *)

\* C6: a run in which only the filters change leaves the session's table and
\* flag as they were, the table being the one the last load returned; when no
\* row matches the selection the run shows the warning and nothing else.
C6_FilterIsAView ==
    [][(/\ ~run'.button
        /\ data_loaded
        /\ <<selected_account', selected_type'>> /= <<selected_account, selected_type>>) =>
           /\ df' = df
           /\ data_loaded' = data_loaded
           /\ df' = cache'[1].value
           /\ (\A j \in DOMAIN df :
                  ~(df[j]["Account"] \in selected_account' /\ df[j]["Type"] \in selected_type'))
                => dash' = [shown |-> "warning"]]_vars

\* No account is selected on a loaded table: the warning shows, the table stays.
C6_Witness ==
    /\ ~run.button
    /\ data_loaded
    /\ selected_account = {}
    /\ Len(df) = 2
    /\ df = cache[1].value
    /\ dash = [shown |-> "warning"]

-----------------------------------------------------------------------------
(* C7 *)

\* C7 as stated: every row of the table has a non-null P/L, and total_pl is
\* the sum of P/L over every row of the view.
C7_EveryRetainedRowHasPL ==
    /\ \A j \in DOMAIN df : df[j]["P/L"] /= NaN
    /\ dash.shown = "dashboard" =>
          dash.total_pl = SumOver(dash.filtered_df, DOMAIN dash.filtered_df, "P/L")

\* C7 amended: every retained cash row has a numeric P/L; a retained row has
\* a null P/L exactly when it is not a cash row and its P/L cell does not
\* parse; total_pl is the sum of P/L over the rows of the view whose P/L is
\* non-null.
C7_NullPLOnlyOnInvestedRows ==
    /\ \A j \in DOMAIN df :
          LET r == sheet.rows[df[j]["index"][1] + 1]
          IN  /\ IsCashType(df[j]["Type"]) => df[j]["P/L"] /= NaN
              /\ df[j]["P/L"] = NaN <=> (~IsCashType(r["Type"]) /\ ~Parses(r["P/L"]))
    /\ dash.shown = "dashboard" =>
          dash.total_pl =
              SumOver(dash.filtered_df,
                      {j \in DOMAIN dash.filtered_df : dash.filtered_df[j]["P/L"] /= NaN},
                      "P/L")

\* A table with a retained invested row whose P/L is null beside a row whose
\* P/L counts, and a table with a cash row whose blank P/L became 0.
C7_Witness ==
    /\ dash.shown = "dashboard"
    /\ Len(df) = 2
    /\ df[1]["P/L"] = NaN
    /\ dash.total_pl = 2

\* A retained cash row whose unparseable P/L became 0.
C7_WitnessCash ==
    /\ Fetched
    /\ \E j \in DOMAIN df :
          /\ IsCashType(df[j]["Type"])
          /\ sheet.rows[df[j]["index"][1] + 1]["P/L"] = <<"x">>
          /\ df[j]["P/L"] = <<0>>

-----------------------------------------------------------------------------
(* C8 *)

\* C8: with every account and every type selected, total_value is the sum of
\* Current Value over every row the last load returned, cash rows included.
C8_TotalValueUnfiltered ==
    (data_loaded /\ DefaultFilters) =>
        /\ dash.shown = "dashboard"
        /\ dash.total_value = SumOver(cache[1].value, DOMAIN cache[1].value, "Current Value")

\* Default filters on a table that holds a cash row with a negative value.
C8_Witness ==
    /\ data_loaded
    /\ DefaultFilters
    /\ Len(df) = 2
    /\ \E j \in DOMAIN df : IsCashType(df[j]["Type"]) /\ df[j]["Current Value"] = <<0 - 1>>
    /\ dash.total_value = 2

-----------------------------------------------------------------------------
(* C9 *)

\* C9: a dashboard drawn from a view whose rows are all cash has empty
\* by-type and by-type/name aggregates, an invested capital of 0, an overall
\* percentage of 0, no error, and total_value the sum of the rows' values.
C9_AllCashView ==
    (dash.shown = "dashboard" /\ AllCash(dash.filtered_df)) =>
        /\ dash.type_distribution = {}
        /\ dash.treemap_df = <<>>
        /\ dash.invested_capital = 0
        /\ dash.overall_pct_change = Zero
        /\ load_error.kind = "None"
        /\ dash.total_value =
              SumOver(dash.filtered_df, DOMAIN dash.filtered_df, "Current Value")

\* An all-cash view of two rows, cut by the type filter out of a larger table.
C9_Witness ==
    /\ dash.shown = "dashboard"
    /\ AllCash(dash.filtered_df)
    /\ dash.total_value = 0 - 1
    /\ Len(df) = 2
    /\ Len(dash.filtered_df) = 1
    /\ dash.type_distribution = {}

-----------------------------------------------------------------------------
(* C10 *)

\* C10: in every reachable state, data_loaded implies that the session's
\* table has rows and that each has a non-null Current Value and Capital
\* Input; a load that returns no row leaves the flag down.
C10_LoadedMeansRows ==
    /\ data_loaded =>
          /\ df /= <<>>
          /\ \A j \in DOMAIN df :
                df[j]["Current Value"] /= NaN /\ df[j]["Capital Input"] /= NaN
    /\ (run.button /\ df = <<>>) => (~data_loaded /\ dash.shown = "info")

\* A load whose every row was dropped by the cleaning: no error, no table.
C10_Witness ==
    /\ Fetched
    /\ sheet.rows /= <<>>
    /\ load_error.kind = "None"
    /\ df = <<>>
    /\ ~data_loaded

====
